---- MODULE Spec2Model ----
(***************************************************************************)
(* Model of src/src/computer_learn.py: the process-wide DataFrame          *)
(* `dataset`, create_dataset (the self-play loop with its round-end label  *)
(* shaping, the csv export and the throughput report) and record_results   *)
(* (the recording strategy wrapper the engine calls for the trainee).      *)
(*                                                                         *)
(* The game engine (pazaak.play_a_set, setup_game, prepare_next_game) and  *)
(* the strategies (computer_strategies.blackjack_like_strategy and         *)
(* random_strategy) are not in src/: they are modelled by their contract,  *)
(* as nondeterministic choices.                                            *)
(*                                                                         *)
(* Labels are floats in the code; the model writes them as the strings     *)
(* "nan", "0", "0.3", "1", "-0.3", "-1".                                   *)
(***************************************************************************)
EXTENDS Integers, Sequences, FiniteSets, TLC

\* ------------------------------------------------------------------ bounds
\* most sets played in one process, over all create_dataset calls
MaxSets == 2
\* most record_results calls the engine makes within one set
MaxDecisions == 2
\* most rows the DataFrame grows to (it is never emptied by the code)
MaxRows == 3

\* --------------------------------------------------------------- constants
NaN == "nan"
None == "None"
TRAINEE == "MLTrainee"
OPPONENT == "Opponent"
BLS == "bls"
RDS == "rds"

\* what pazaak.play_a_set returns: None, or the winning player (its name)
Winners == {None, TRAINEE, OPPONENT}

\* the strategy_func argument of create_dataset
StrategyArgs == {None, RDS}

\* the record_results calls tried: the arguments the engine passes
\* (self_hand, self_score, opp_score, opp_stands) and the decision
\* (play_card, card_index, stand) the strategy makes for them
Calls ==
    { [self_hand |-> <<2, -3>>, self_score |-> 10, opp_score |-> 5,
       opp_stands |-> FALSE,
       play_card |-> TRUE, card_index |-> 0, stand |-> FALSE],
      [self_hand |-> <<-3>>, self_score |-> 12, opp_score |-> 5,
       opp_stands |-> FALSE,
       play_card |-> FALSE, card_index |-> 0, stand |-> TRUE],
      [self_hand |-> <<4, -3>>, self_score |-> 18, opp_score |-> 17,
       opp_stands |-> TRUE,
       play_card |-> TRUE, card_index |-> 1, stand |-> TRUE],
      [self_hand |-> <<4, -3>>, self_score |-> 18, opp_score |-> 17,
       opp_stands |-> TRUE,
       play_card |-> FALSE, card_index |-> 1, stand |-> FALSE] }

\* end - start of the two timer() readings, in tenths of a second
Elapsed == {0, 9, 10}

VARIABLES
    dataset,        \* the module global DataFrame, a sequence of rows
    pc,             \* create_dataset: "idle" (not running), "loop" (at the
                    \* head of the for loop), "playing" (inside play_a_set)
    learning_sets,  \* argument of the current/last run
    strategy_func,  \* argument of the current/last run
    setsPlayed,     \* iterations of the for loop completed
    sets_won,
    draws,
    sets_lost,
    winner,         \* what the last play_a_set of the run returned
    outcome,        \* of the current/last run: "none", "running",
                    \* "returned", "ZeroDivisionError", "IndexError",
                    \* "EngineError"
    file,           \* rows of DATASET_FILE_NAME (the header row is implied)
    writes,         \* to_csv calls of the current/last run
    total_time,
    sets_per_sec,   \* <<>> while not computed, else <<numerator, denominator>>
    calledPolicy,   \* the strategy the last record_results call of the set
                    \* in progress delegated to (None outside a set)
    policyResult,   \* what that strategy returned
    returned,       \* what that record_results call returned to the engine
    played,         \* history: play_a_set calls so far in the process
    runStart,       \* history: Len(dataset) when the run was called
    roundStart,     \* history: Len(dataset) when play_a_set was called
    recorded,       \* history: record_results calls of the current/last run
    first,          \* the player random.sample put first for the last
                    \* play_a_set call of the run (None before the first)
    lastArgs,       \* the (self_hand, self_score, opp_score, opp_stands) of
                    \* the last record_results call of the set in progress
    prevPolicy,     \* the strategy the record_results call before that one
                    \* delegated to, in the same set (None if there is none)
    policyCalls,    \* history: strategy calls of the current/last run
    trained         \* train_model: <<>> before it ran, then <<X, y>>

vars == <<dataset, pc, learning_sets, strategy_func, setsPlayed, sets_won,
          draws, sets_lost, winner, outcome, file, writes, total_time,
          sets_per_sec, calledPolicy, policyResult, returned, played, runStart,
          roundStart, recorded, first, lastArgs, prevPolicy, policyCalls,
          trained>>

\* ------------------------------------------------------------ DataFrame ops

\* mutant of NewRow: the value of the first hand card, whatever card_index
NewRowFirstCard(self_hand, self_score, opp_score, opp_stands, play_card, card_index, stand) ==
    [self_score |-> self_score,
     opp_score |-> opp_score,
     opp_stands |-> opp_stands,
     result_card_val |-> IF play_card THEN self_hand[1] ELSE 0,
     result_stand |-> stand,
     score |-> NaN]

\* the dict record_results appends (lines 164-171)
NewRow(self_hand, self_score, opp_score, opp_stands, play_card, card_index, stand) ==
    [self_score |-> self_score,
     opp_score |-> opp_score,
     opp_stands |-> opp_stands,
     result_card_val |-> IF play_card THEN self_hand[card_index + 1] ELSE 0,
     result_stand |-> stand,
     score |-> NaN]

\* mutant of DfAppend: the row is written over the last row of a frame that
\* has one
DfAppendOverLast(df, row) ==
    IF Len(df) = 0 THEN <<row>> ELSE [df EXCEPT ![Len(df)] = row]

\* dataset.append(row, ignore_index=True): a new frame with the row at the end
DfAppend(df, row) == Append(df, row)

\* dataset.fillna(v, inplace=True): every NaN cell becomes v.  Only the score
\* column ever holds NaN: record_results writes numbers and booleans into the
\* other five.
Fillna(df, v) ==
    [i \in 1..Len(df) |->
        IF df[i].score = NaN THEN [df[i] EXCEPT !.score = v] ELSE df[i]]

\* mutant of SetLastScore: iloc[0, 5], the first row instead of the last
SetFirstScore(df, v) ==
    [df EXCEPT ![1] = [df[1] EXCEPT !.score = v]]

\* dataset.iloc[-1, 5] = v on a frame with at least one row
SetLastScore(df, v) ==
    [df EXCEPT ![Len(df)] = [df[Len(df)] EXCEPT !.score = v]]

\* dataset.iloc[-1, 5] = v raises IndexError on a frame without rows
IlocRaises(df) == Len(df) = 0

\* mutant of Shape: the win branch without its iloc assignment
ShapeWinNoTerminal(df, w) ==
    IF w = None THEN Fillna(df, "0")
    ELSE IF w = TRAINEE THEN Fillna(df, "0.3")
    ELSE IF IlocRaises(Fillna(df, "-0.3")) THEN Fillna(df, "-0.3")
    ELSE SetLastScore(Fillna(df, "-0.3"), "-1")

\* mutant of Shape: the loss branch fills in .3 instead of -.3
ShapeLossSignSlip(df, w) ==
    IF w = None THEN Fillna(df, "0")
    ELSE IF w = TRAINEE
         THEN IF IlocRaises(Fillna(df, "0.3")) THEN Fillna(df, "0.3")
              ELSE SetLastScore(Fillna(df, "0.3"), "1")
         ELSE IF IlocRaises(Fillna(df, "0.3")) THEN Fillna(df, "0.3")
              ELSE SetLastScore(Fillna(df, "0.3"), "-1")

\* mutant of Shape: no draw branch, a set without winner is shaped as lost
ShapeDrawAsLoss(df, w) ==
    IF w = TRAINEE
    THEN IF IlocRaises(Fillna(df, "0.3")) THEN Fillna(df, "0.3")
         ELSE SetLastScore(Fillna(df, "0.3"), "1")
    ELSE IF IlocRaises(Fillna(df, "-0.3")) THEN Fillna(df, "-0.3")
         ELSE SetLastScore(Fillna(df, "-0.3"), "-1")

\* lines 66-76, the effect on the frame of the branch taken for winner w; on
\* an empty frame the win and loss branches stop at the iloc assignment,
\* after fillna
Shape(df, w) ==
    IF w = None THEN Fillna(df, "0")
    ELSE IF w = TRAINEE
         THEN IF IlocRaises(Fillna(df, "0.3")) THEN Fillna(df, "0.3")
              ELSE SetLastScore(Fillna(df, "0.3"), "1")
         ELSE IF IlocRaises(Fillna(df, "-0.3")) THEN Fillna(df, "-0.3")
              ELSE SetLastScore(Fillna(df, "-0.3"), "-1")

\* lines 66-76 raise: a branch with an iloc assignment, on an empty frame
ShapeRaises(df, w) == w # None /\ IlocRaises(df)

\* int(end - start) of a non-negative difference given in tenths of a second
IntSeconds(tenths) == tenths \div 10

\* --------------------------------------------------------------- strategies
\* mutant of ChosenStrategies: the random choice is made also when a
\* strategy was supplied
ChosenStrategiesAlwaysRandom(arg) == {BLS, RDS}

\* line 160-161: the strategy record_results delegates to
ChosenStrategies(arg) == IF arg = None THEN {BLS, RDS} ELSE {arg}

\* -------------------------------------------------------------------- Init
Init ==
    /\ dataset = <<>>
    /\ pc = "idle"
    /\ learning_sets = 0
    /\ strategy_func = None
    /\ setsPlayed = 0
    /\ sets_won = 0
    /\ draws = 0
    /\ sets_lost = 0
    /\ winner = None
    /\ outcome = "none"
    /\ file = <<>>
    /\ writes = 0
    /\ total_time = 0
    /\ sets_per_sec = <<>>
    /\ calledPolicy = None
    /\ policyResult = <<>>
    /\ returned = <<>>
    /\ played = 0
    /\ runStart = 0
    /\ roundStart = 0
    /\ recorded = 0
    /\ first = None
    /\ lastArgs = <<>>
    /\ prevPolicy = None
    /\ policyCalls = 0
    /\ trained = <<>>

\* ----------------------------------------------------------------- actions

\* create_dataset(n, sf) is called: lines 49-59
CreateDataset(n, sf) ==
    /\ pc = "idle"
    /\ played + n <= MaxSets
    /\ pc' = "loop"
    /\ learning_sets' = n
    /\ strategy_func' = sf
    /\ setsPlayed' = 0
    /\ sets_won' = 0
    /\ draws' = 0
    /\ sets_lost' = 0
    /\ outcome' = "running"
    /\ writes' = 0
    /\ total_time' = 0
    /\ sets_per_sec' = <<>>
    /\ runStart' = Len(dataset)
    /\ roundStart' = Len(dataset)
    /\ recorded' = 0
    /\ winner' = None
    /\ first' = None
    /\ policyCalls' = 0
    /\ UNCHANGED <<dataset, file, calledPolicy, policyResult, returned, played,
                   lastArgs, prevPolicy, trained>>

\* the for loop enters an iteration and calls pazaak.play_a_set with the two
\* players in the order random.sample gives, f first: lines 62-65
PlayASet(f) ==
    /\ pc = "loop"
    /\ setsPlayed < learning_sets
    /\ pc' = "playing"
    /\ roundStart' = Len(dataset)
    /\ played' = played + 1
    /\ first' = f
    /\ UNCHANGED <<dataset, learning_sets, strategy_func, setsPlayed, sets_won,
                   draws, sets_lost, winner, outcome, file, writes, total_time,
                   sets_per_sec, calledPolicy, policyResult, returned,
                   runStart, recorded, lastArgs, prevPolicy, policyCalls,
                   trained>>

\* the engine asks the trainee for a decision: record_results, lines 147-172.
\* c holds the arguments and the triple the strategy sf returns for them.
RecordResults(c, sf) ==
    /\ pc = "playing"
    /\ Len(dataset) < MaxRows
    /\ Len(dataset) - roundStart < MaxDecisions
    /\ sf \in ChosenStrategies(strategy_func)
    /\ calledPolicy' = sf
    /\ policyResult' = <<c.play_card, c.card_index, c.stand>>
    /\ dataset' = DfAppend(dataset,
                           NewRow(c.self_hand, c.self_score, c.opp_score,
                                  c.opp_stands, c.play_card, c.card_index,
                                  c.stand))
    /\ returned' = <<c.play_card, c.card_index, c.stand>>
    /\ recorded' = recorded + 1
    /\ lastArgs' = <<c.self_hand, c.self_score, c.opp_score, c.opp_stands>>
    /\ prevPolicy' = calledPolicy
    /\ policyCalls' = policyCalls + 1
    /\ UNCHANGED <<pc, learning_sets, strategy_func, setsPlayed, sets_won,
                   draws, sets_lost, winner, outcome, file, writes, total_time,
                   sets_per_sec, played, runStart, roundStart, first, trained>>

\* play_a_set raises: the exception leaves create_dataset
EngineRaises ==
    /\ pc = "playing"
    /\ pc' = "idle"
    /\ outcome' = "EngineError"
    /\ calledPolicy' = None
    /\ policyResult' = <<>>
    /\ returned' = <<>>
    /\ lastArgs' = <<>>
    /\ prevPolicy' = None
    /\ UNCHANGED <<dataset, learning_sets, strategy_func, setsPlayed, sets_won,
                   draws, sets_lost, winner, file, writes, total_time,
                   sets_per_sec, played, runStart, roundStart, recorded, first,
                   policyCalls, trained>>

\* mutant of SetEnds: a set counts as won when its winner is the player that
\* was seated first, instead of the player named MLTrainee
SetEndsCountsBySeat(w) ==
    /\ pc = "playing"
    /\ winner' = w
    /\ dataset' = Shape(dataset, w)
    /\ IF ShapeRaises(dataset, w)
       THEN /\ pc' = "idle"
            /\ outcome' = "IndexError"
            /\ UNCHANGED <<setsPlayed, sets_won, draws, sets_lost>>
       ELSE /\ pc' = "loop"
            /\ setsPlayed' = setsPlayed + 1
            /\ draws' = IF w = None THEN draws + 1 ELSE draws
            /\ sets_won' = IF w = first THEN sets_won + 1 ELSE sets_won
            /\ sets_lost' = IF w \notin {None, first} THEN sets_lost + 1
                            ELSE sets_lost
            /\ UNCHANGED outcome
    /\ calledPolicy' = None
    /\ policyResult' = <<>>
    /\ returned' = <<>>
    /\ lastArgs' = <<>>
    /\ prevPolicy' = None
    /\ UNCHANGED <<learning_sets, strategy_func, file, writes, total_time,
                   sets_per_sec, played, runStart, roundStart, recorded, first,
                   policyCalls, trained>>

\* play_a_set returns w; the labels are shaped, the counter of the branch is
\* incremented and the next game prepared: lines 63-77
SetEnds(w) ==
    /\ pc = "playing"
    /\ winner' = w
    /\ dataset' = Shape(dataset, w)
    /\ IF ShapeRaises(dataset, w)
       THEN /\ pc' = "idle"
            /\ outcome' = "IndexError"
            /\ UNCHANGED <<setsPlayed, sets_won, draws, sets_lost>>
       ELSE /\ pc' = "loop"
            /\ setsPlayed' = setsPlayed + 1
            /\ draws' = IF w = None THEN draws + 1 ELSE draws
            /\ sets_won' = IF w = TRAINEE THEN sets_won + 1 ELSE sets_won
            /\ sets_lost' = IF w \notin {None, TRAINEE} THEN sets_lost + 1
                            ELSE sets_lost
            /\ UNCHANGED outcome
    /\ calledPolicy' = None
    /\ policyResult' = <<>>
    /\ returned' = <<>>
    /\ lastArgs' = <<>>
    /\ prevPolicy' = None
    /\ UNCHANGED <<learning_sets, strategy_func, file, writes, total_time,
                   sets_per_sec, played, runStart, roundStart, recorded, first,
                   policyCalls, trained>>

\* mutant of Finish: the export and the report do not wait for the loop to
\* play all learning_sets sets
FinishBeforeLoopEnds(e) ==
    /\ pc = "loop"
    /\ file' = dataset
    /\ writes' = writes + 1
    /\ total_time' = IntSeconds(e)
    /\ IF IntSeconds(e) = 0
       THEN /\ outcome' = "ZeroDivisionError"
            /\ UNCHANGED sets_per_sec
       ELSE /\ outcome' = "returned"
            /\ sets_per_sec' = <<learning_sets, IntSeconds(e)>>
    /\ pc' = "idle"
    /\ first' = None
    /\ UNCHANGED <<dataset, learning_sets, strategy_func, setsPlayed, sets_won,
                   draws, sets_lost, winner, calledPolicy, policyResult,
                   returned, played, runStart, roundStart, recorded,
                   lastArgs, prevPolicy, policyCalls, trained>>

\* the loop is over: to_csv, the second timer reading, the throughput
\* division and the two prints: lines 79-86
Finish(e) ==
    /\ pc = "loop"
    /\ setsPlayed = learning_sets
    /\ file' = dataset
    /\ writes' = writes + 1
    /\ total_time' = IntSeconds(e)
    /\ IF IntSeconds(e) = 0
       THEN /\ outcome' = "ZeroDivisionError"
            /\ UNCHANGED sets_per_sec
       ELSE /\ outcome' = "returned"
            /\ sets_per_sec' = <<learning_sets, IntSeconds(e)>>
    /\ pc' = "idle"
    /\ first' = None
    /\ UNCHANGED <<dataset, learning_sets, strategy_func, setsPlayed, sets_won,
                   draws, sets_lost, winner, calledPolicy, policyResult,
                   returned, played, runStart, roundStart, recorded,
                   lastArgs, prevPolicy, policyCalls, trained>>

Next ==
    \/ \E n \in 0..MaxSets, sf \in StrategyArgs : CreateDataset(n, sf)
    \/ \E f \in {TRAINEE, OPPONENT} : PlayASet(f)
    \/ \E c \in Calls, sf \in {BLS, RDS} : RecordResults(c, sf)
    \/ EngineRaises
    \/ \E w \in Winners : SetEnds(w)
    \/ \E e \in Elapsed : Finish(e)

Spec == Init /\ [][Next]_vars

\* ------------------------------------------------------------- train_model
\* most data rows of a dataset file handed to train_model
MaxFileRows == 2

\* the labels create_dataset writes
Labels == {"0", "0.3", "1", "-0.3", "-1"}

\* the rows of the dataset files tried: the rows record_results makes of
\* Calls, with a label
TrainRows ==
    { [NewRow(c.self_hand, c.self_score, c.opp_score, c.opp_stands,
              c.play_card, c.card_index, c.stand) EXCEPT !.score = l] :
          c \in Calls, l \in Labels }

\* the dataset files tried
TrainFiles == UNION { [1..k -> TrainRows] : k \in 0..MaxFileRows }

\* the header create_dataset writes (lines 26-27)
Header ==
    <<"self_score", "opp_score", "opp_stands", "result_card_val",
      "result_stand", "score">>

\* pd.read_csv(dataset_file_name): a frame with the columns of the header, in
\* its order, and one row per data row of the file, in its order
ReadCsv(f) == [cols |-> Header, rows |-> f]

\* df[name] = values: the column is added after the existing ones
WithColumn(df, name, values) ==
    [cols |-> Append(df.cols, name),
     rows |-> [i \in 1..Len(df.rows) |->
                 [c \in (DOMAIN df.rows[i]) \cup {name} |->
                     IF c = name THEN values[i] ELSE df.rows[i][c]]]]

\* df.drop(columns=[name]): the other columns, in their order
DropColumn(df, name) ==
    [cols |-> SelectSeq(df.cols, LAMBDA c : c # name),
     rows |-> [i \in 1..Len(df.rows) |->
                 [c \in (DOMAIN df.rows[i]) \ {name} |-> df.rows[i][c]]]]

\* mutant of ScoreDifference: the operands exchanged
ScoreDifferenceReversed(df) ==
    [i \in 1..Len(df.rows) |-> df.rows[i].opp_score - df.rows[i].self_score]

\* df.self_score - df.opp_score (line 108)
ScoreDifference(df) ==
    [i \in 1..Len(df.rows) |-> df.rows[i].self_score - df.rows[i].opp_score]

\* df.self_score + df.result_card_val (line 110)
ScoreIfCardPlayed(df) ==
    [i \in 1..Len(df.rows) |->
        df.rows[i].self_score + df.rows[i].result_card_val]

\* mutant of Engineer: opp_score is not dropped
EngineerKeepsOppScore(df) ==
    DropColumn(
        WithColumn(WithColumn(df, "score_difference", ScoreDifference(df)),
                   "score_if_card_played", ScoreIfCardPlayed(df)),
        "result_card_val")

\* lines 108-111: the two derived columns and the two drops
Engineer(df) ==
    DropColumn(
        WithColumn(
            DropColumn(
                WithColumn(df, "score_difference", ScoreDifference(df)),
                "opp_score"),
            "score_if_card_played", ScoreIfCardPlayed(df)),
        "result_card_val")

\* line 115: X, the frame without the score column
FeaturesX(df) == DropColumn(df, "score")

\* line 115: y, the score column
TargetY(df) == [i \in 1..Len(df.rows) |-> df.rows[i].score]

\* feature_names (lines 119-120)
feature_names ==
    <<"self_score", "opp_stands", "result_stand", "score_difference",
      "score_if_card_played">>

\* train_model is called on the dataset file: lines 102-115
TrainModel ==
    /\ trained = <<>>
    /\ trained' = <<FeaturesX(Engineer(ReadCsv(file))),
                    TargetY(Engineer(ReadCsv(file)))>>
    /\ UNCHANGED <<dataset, pc, learning_sets, strategy_func, setsPlayed,
                   sets_won, draws, sets_lost, winner, outcome, file, writes,
                   total_time, sets_per_sec, calledPolicy, policyResult,
                   returned, played, runStart, roundStart, recorded, first,
                   lastArgs, prevPolicy, policyCalls>>

\* a process that calls train_model on a dataset file
InitTrain ==
    /\ file \in TrainFiles
    /\ dataset = <<>>
    /\ pc = "idle"
    /\ learning_sets = 0
    /\ strategy_func = None
    /\ setsPlayed = 0
    /\ sets_won = 0
    /\ draws = 0
    /\ sets_lost = 0
    /\ winner = None
    /\ outcome = "none"
    /\ writes = 0
    /\ total_time = 0
    /\ sets_per_sec = <<>>
    /\ calledPolicy = None
    /\ policyResult = <<>>
    /\ returned = <<>>
    /\ played = 0
    /\ runStart = 0
    /\ roundStart = 0
    /\ recorded = 0
    /\ first = None
    /\ lastArgs = <<>>
    /\ prevPolicy = None
    /\ policyCalls = 0
    /\ trained = <<>>

NextTrain == TrainModel

SpecTrain == InitTrain /\ [][NextTrain]_vars

\* ------------------------------------------------------------------ claims

\* the rows record_results appended during the set in progress or just ended
RoundRows == (roundStart + 1)..Len(dataset)

\* create_dataset is right after the shaping of a set (lines 66-77)
JustShaped == pc = "loop" /\ setsPlayed > 0

\* C1: after the shaping of a set the trainee won, every row appended during
\* that set has label 0.3, except the last one, which has label 1.
C1_WinLabels ==
    (JustShaped /\ winner = TRAINEE) =>
        \A i \in RoundRows :
            dataset[i].score = IF i = Len(dataset) THEN "1" ELSE "0.3"

\* a won set with two recorded decisions (10,5,False,2,False) and
\* (12,5,False,0,True) has been shaped
C1_Witness ==
    /\ JustShaped
    /\ winner = TRAINEE
    /\ Len(dataset) = roundStart + 2
    /\ dataset[roundStart + 1].self_score = 10
    /\ dataset[roundStart + 1].score = "0.3"
    /\ dataset[roundStart + 2].self_score = 12
    /\ dataset[roundStart + 2].score = "1"

\* C2: after the shaping of a set won by somebody else than the trainee,
\* every row appended during that set has label -0.3, except the last one,
\* which has label -1.
C2_LossLabels ==
    (JustShaped /\ winner \notin {None, TRAINEE}) =>
        \A i \in RoundRows :
            dataset[i].score = IF i = Len(dataset) THEN "-1" ELSE "-0.3"

\* a lost set with two recorded decisions has been shaped
C2_Witness ==
    /\ JustShaped
    /\ winner = OPPONENT
    /\ Len(dataset) = roundStart + 2
    /\ dataset[roundStart + 1].score = "-0.3"
    /\ dataset[roundStart + 2].score = "-1"

\* C3: after the shaping of a set without winner, every row appended during
\* that set, the last one included, has label 0.
C3_DrawLabels ==
    (JustShaped /\ winner = None) =>
        \A i \in RoundRows : dataset[i].score = "0"

\* a drawn set with two recorded decisions has been shaped
C3_Witness ==
    /\ JustShaped
    /\ winner = None
    /\ Len(dataset) = roundStart + 2
    /\ dataset[roundStart + 1].score = "0"
    /\ dataset[roundStart + 2].score = "0"

\* C4: a label that is resolved keeps its value in every later step, the
\* shaping of every later set included, whatever number of decisions (none
\* included) that set recorded.
C4_ResolvedLabelsKept ==
    [][\A i \in 1..Len(dataset) :
          dataset[i].score # NaN =>
              /\ i <= Len(dataset')
              /\ dataset'[i].score = dataset[i].score]_vars

\* C5: when the dataset is written to the file, none of its rows has an
\* unresolved label.
C5_NoUnresolvedWritten ==
    writes = 1 => \A i \in 1..Len(file) : file[i].score # NaN

\* C6: the dataset is empty when a run starts, and the file a run writes
\* holds exactly as many rows as record_results was called during that run.
C6_RunStartsEmpty ==
    /\ pc # "idle" => runStart = 0
    /\ writes = 1 => Len(file) = recorded

\* C7: a record_results call appends exactly one row, with an unresolved
\* label, at the end of the dataset, leaves every earlier row as it was, and
\* returns the triple the strategy returned.
C7_RecordAppendsOne ==
    [][(pc = "playing" /\ pc' = "playing") =>
          /\ Len(dataset') = Len(dataset) + 1
          /\ SubSeq(dataset', 1, Len(dataset)) = dataset
          /\ dataset'[Len(dataset')].score = NaN
          /\ returned' = policyResult'
          /\ returned' # <<>>]_vars

\* record_results has just returned, with resolved rows of an earlier set
\* before the row it appended
C7_Witness ==
    /\ pc = "playing"
    /\ returned # <<>>
    /\ returned = policyResult
    /\ roundStart >= 1
    /\ Len(dataset) = roundStart + 1
    /\ dataset[roundStart].score # NaN
    /\ dataset[Len(dataset)].score = NaN

\* the terminal label of a set: 1 for a win, 0 for a draw, -1 for a loss
Terminal(w) == IF w = None THEN "0" ELSE IF w = TRAINEE THEN "1" ELSE "-1"

\* C8: a set with exactly one recorded decision yields one row, whose label
\* after shaping is the terminal value, never 0.3 or -0.3.
C8_SingleDecisionTerminal ==
    (JustShaped /\ Len(dataset) = roundStart + 1) =>
        /\ dataset[Len(dataset)].score = Terminal(winner)
        /\ dataset[Len(dataset)].score \notin {"0.3", "-0.3"}

\* a won set with one recorded decision, played after a set that left rows,
\* has been shaped
C8_Witness ==
    /\ JustShaped
    /\ winner = TRAINEE
    /\ roundStart >= 1
    /\ Len(dataset) = roundStart + 1
    /\ dataset[Len(dataset)].score = "1"

\* C9: a run that reaches the throughput division does not fail there: it
\* returns, and with a total_time of 0 no throughput is computed.
C9_ThroughputGuarded ==
    (pc = "idle" /\ writes = 1) =>
        /\ outcome = "returned"
        /\ total_time = 0 => sets_per_sec = <<>>

\* C10: a run with learning_sets = 0 that started on an empty dataset plays
\* no set, writes a file without data rows and returns without raising.
C10_ZeroSetsReturns ==
    (pc = "idle" /\ outcome # "none" /\ learning_sets = 0 /\ runStart = 0) =>
        /\ setsPlayed = 0
        /\ writes = 1
        /\ file = <<>>
        /\ outcome = "returned"

\* C11: a run writes the file at most once, and only with all learning_sets
\* sets played and shaped; a run that returned or reached the throughput
\* division has written it once; a run that play_a_set (or the shaping)
\* left with an exception has not written it and plays no further set.
C11_WrittenOnceAtEnd ==
    /\ writes <= 1
    /\ writes = 1 =>
           /\ pc = "idle"
           /\ setsPlayed = learning_sets
           /\ outcome \in {"returned", "ZeroDivisionError"}
    /\ outcome \in {"returned", "ZeroDivisionError"} => writes = 1
    /\ outcome \in {"EngineError", "IndexError"} =>
           /\ writes = 0
           /\ pc = "idle"
           /\ setsPlayed < learning_sets

\* play_a_set raised in the second set of a run, after a decision was recorded
C11_Witness ==
    /\ outcome = "EngineError"
    /\ learning_sets = 2
    /\ setsPlayed = 1
    /\ Len(dataset) > roundStart
    /\ writes = 0
    /\ file = <<>>

\* the five fields of a row that are not its label
NonLabel(row) ==
    <<row.self_score, row.opp_score, row.opp_stands, row.result_card_val,
      row.result_stand>>

\* C12: in every step (a record_results call, the shaping of a set) no row is
\* removed or moved, the non-label fields of the rows stay as they are, and a
\* label changes only from unresolved to a number.
C12_AppendOnly ==
    [][/\ Len(dataset') >= Len(dataset)
       /\ \A i \in 1..Len(dataset) :
              /\ NonLabel(dataset'[i]) = NonLabel(dataset[i])
              /\ dataset'[i].score # dataset[i].score =>
                     /\ dataset[i].score = NaN
                     /\ dataset'[i].score # NaN]_vars

\* the names in a sequence of column names
Names(cols) == { cols[i] : i \in 1..Len(cols) }

\* C13 as stated: the features the model is fitted on contain
\* score_difference and score_if_card_played and none of self_score,
\* opp_score and result_card_val.
C13_ScoresReplaced ==
    trained # <<>> =>
        /\ {"score_difference", "score_if_card_played"}
               \subseteq Names(trained[1].cols)
        /\ Names(trained[1].cols)
               \cap {"self_score", "opp_score", "result_card_val"} = {}

\* C13 amended: the features are self_score, opp_stands, result_stand,
\* score_difference and score_if_card_played, in the order of feature_names:
\* opp_score, result_card_val and score are gone, self_score is kept.  Every
\* row has exactly these columns.
C13_FeatureColumns ==
    trained # <<>> =>
        /\ trained[1].cols = feature_names
        /\ \A i \in 1..Len(trained[1].rows) :
               DOMAIN trained[1].rows[i] = Names(feature_names)

\* train_model has engineered the features of a file with two data rows
C13_Witness ==
    /\ trained # <<>>
    /\ Len(file) = 2
    /\ Len(trained[1].rows) = 2
    /\ "self_score" \in Names(trained[1].cols)
    /\ "score_difference" \in Names(trained[1].cols)

\* C14: for every row of the file, in the file's order, score_difference is
\* self_score - opp_score and score_if_card_played is self_score +
\* result_card_val of that row, the kept fields are that row's, and y holds
\* that row's label; no row is added or lost.
C14_RowwiseFeatures ==
    trained # <<>> =>
        /\ Len(trained[1].rows) = Len(file)
        /\ Len(trained[2]) = Len(file)
        /\ \A i \in 1..Len(file) :
               /\ trained[1].rows[i].score_difference
                      = file[i].self_score - file[i].opp_score
               /\ trained[1].rows[i].score_if_card_played
                      = file[i].self_score + file[i].result_card_val
               /\ trained[1].rows[i].self_score = file[i].self_score
               /\ trained[1].rows[i].opp_stands = file[i].opp_stands
               /\ trained[1].rows[i].result_stand = file[i].result_stand
               /\ trained[2][i] = file[i].score

\* train_model has engineered a file whose two rows differ in every feature
C14_Witness ==
    /\ trained # <<>>
    /\ Len(file) = 2
    /\ file[1].self_score = 10
    /\ file[1].result_card_val = 2
    /\ file[2].self_score = 18
    /\ file[2].result_card_val = -3
    /\ trained[1].rows[1].score_difference = 5
    /\ trained[1].rows[1].score_if_card_played = 12
    /\ trained[1].rows[2].score_difference = 1
    /\ trained[1].rows[2].score_if_card_played = 15
    /\ trained[2][1] # trained[2][2]

\* C15: at every point of a run the rows with an unresolved label are rows
\* appended during the set in progress and form a suffix of the dataset; at
\* the head of the loop, where a new set starts, no row is unresolved.
C15_UnresolvedOnlyInRound ==
    pc # "idle" =>
        /\ \A i \in 1..Len(dataset) :
               dataset[i].score = NaN => (pc = "playing" /\ i \in RoundRows)
        /\ \A i, j \in 1..Len(dataset) :
               (i < j /\ dataset[i].score = NaN) => dataset[j].score = NaN

\* C16: every completed set adds one to exactly one counter (draws without
\* winner, sets_won when the winner is MLTrainee, sets_lost otherwise,
\* whoever was seated first) and leaves the other two; the three counters add
\* up to the number of completed sets, and a run that got past its loop has
\* played learning_sets sets.
C16_OneCounterPerSet ==
    /\ [](/\ sets_won + draws + sets_lost = setsPlayed
          /\ outcome \in {"returned", "ZeroDivisionError"} =>
                 setsPlayed = learning_sets)
    /\ [][(pc = "playing" /\ pc' = "loop") =>
             /\ setsPlayed' = setsPlayed + 1
             /\ draws' = draws + (IF winner' = None THEN 1 ELSE 0)
             /\ sets_won' = sets_won + (IF winner' = TRAINEE THEN 1 ELSE 0)
             /\ sets_lost' = sets_lost
                    + (IF winner' \notin {None, TRAINEE} THEN 1 ELSE 0)]_vars

\* the second set of a run was won by the trainee, seated second, after a
\* set the opponent won seated second
C16_Witness ==
    /\ JustShaped
    /\ setsPlayed = 2
    /\ first = OPPONENT
    /\ winner = TRAINEE
    /\ sets_won = 1
    /\ sets_lost = 1
    /\ draws = 0

\* C17: the row a record_results call appended holds the self_score,
\* opp_score and opp_stands it was passed, the stand flag of the decision it
\* returned, and as result_card_val the hand card at the returned index when
\* the decision plays a card, 0 when it does not.
C17_RowHoldsCall ==
    (pc = "playing" /\ lastArgs # <<>>) =>
        /\ dataset[Len(dataset)].self_score = lastArgs[2]
        /\ dataset[Len(dataset)].opp_score = lastArgs[3]
        /\ dataset[Len(dataset)].opp_stands = lastArgs[4]
        /\ dataset[Len(dataset)].result_stand = returned[3]
        /\ dataset[Len(dataset)].result_card_val
               = IF returned[1] THEN lastArgs[1][returned[2] + 1] ELSE 0

\* record_results has returned the decision to play the second card of the
\* hand (4, -3) and stand
C17_Witness ==
    /\ pc = "playing"
    /\ lastArgs = <<(<<4, -3>>), 18, 17, TRUE>>
    /\ returned = <<TRUE, 1, TRUE>>
    /\ dataset[Len(dataset)].result_card_val = -3
    /\ dataset[Len(dataset)].result_stand = TRUE

\* C18: every record_results call makes one strategy call; with a strategy
\* supplied to create_dataset every decision is delegated to it, with none
\* supplied each decision is delegated to bls or rds, and the choice made for
\* one decision is not kept: the supplied argument stays as it was.
C18_OnePolicyPerDecision ==
    /\ [](/\ policyCalls = recorded
          /\ \A p \in {calledPolicy, prevPolicy} :
                 (pc = "playing" /\ p # None) =>
                     /\ strategy_func # None => p = strategy_func
                     /\ strategy_func = None => p \in {BLS, RDS})
    /\ [][(pc = "playing" /\ pc' = "playing") =>
             /\ strategy_func' = strategy_func
             /\ policyCalls' = policyCalls + 1
             /\ calledPolicy' # None]_vars

\* with no strategy supplied, two decisions of one set were delegated to
\* different strategies
C18_Witness ==
    /\ pc = "playing"
    /\ strategy_func = None
    /\ prevPolicy = BLS
    /\ calledPolicy = RDS
    /\ policyCalls = 2
====
